---- MODULE Spec2Model ----
(***************************************************************************)
(* Model of music-player-tui/music_player.py: the playback session         *)
(* controller that supervises one external mpv process, talks to it over   *)
(* the unix socket /tmp/mpv-musicplayer and maps keys to actions.          *)
(*                                                                         *)
(* Granularity.  The controller is single threaded; the only concurrent    *)
(* actors are the spawned player processes and the signals SIGINT/SIGTERM, *)
(* whose Python handler runs between two bytecodes of the main thread.     *)
(* play_song is therefore split at the points where a signal or the player *)
(* can observe a difference (stop+unlink, Popen, store of the handle,      *)
(* settle sleep); everything else in a tick runs as one step.              *)
(*                                                                         *)
(* Processes.  terminate() sends SIGTERM: the player exits within the 2 s  *)
(* grace period or it does not, and then kill() sends SIGKILL, which is    *)
(* modelled as ending the process.  Popen.poll() is None exactly while the *)
(* process is not "dead".  A player binds the endpoint at some time after  *)
(* it was spawned, exits whenever it likes, and on an orderly exit removes *)
(* its endpoint file or leaves it behind.                                  *)
(*                                                                         *)
(* Environment.  The directory layout does not change during a session.    *)
(* Signals are modelled from the moment their handler is installed.        *)
(* Variables that no code reads again once the main thread is on its way   *)
(* out are reset at that point (SessionGone).                              *)
(*                                                                         *)
(* Time.  poll_age counts loop sleeps of 0.1 s since the last status poll, *)
(* capped at one second; blocking calls of a second or more (play_song,    *)
(* show_feedback) put it at the cap.                                       *)
(*                                                                         *)
(* Status line.  What update_progress_display writes is a function of the  *)
(* three properties read from mpv; SpecRender applies it to every          *)
(* combination of sample values, with the controller left at rest.         *)
(*                                                                         *)
(* Display.  screen holds the rows of the terminal as the functions that   *)
(* draw by absolute row leave them; a row is one opaque piece of text.     *)
(*                                                                         *)
(* Type-ahead.  SpecTypeAhead adds a q typed while a track plays, which    *)
(* waits in the terminal's buffer until get_key reads it, and weak         *)
(* fairness of the main thread.                                            *)
(*                                                                         *)
(* video-player/video_player.py is a program of its own.  SpecVideo models *)
(* its interactive menu loop and its --play <number> path; lines typed at  *)
(* the menu are sequences of characters, parsed as the code parses them.   *)
(* SpecPlay applies play_video to every pattern of missing, failing and    *)
(* installed player commands.                                              *)
(***************************************************************************)
EXTENDS Integers, Sequences, FiniteSets, TLC

\* ---------------------------------------------------------------- bounds
MaxTracks == 3      \* number of tracks in the largest folder
MaxLog == 1         \* lines one session appends to likes.txt and dislikes.txt
NumPids == 3        \* process identifiers available to the OS (reused)
MaxVideos == 3      \* number of video files in the largest directory
MaxLaunch == 2      \* players one run of the video player starts

\* ------------------------------------------------------------- constants
None == 0           \* Python None for the process handle
NoSock == 0         \* MPV_SOCKET does not exist
PollPeriod == 10    \* 1 second, in loop sleeps of 0.1 s

Pids == 1..NumPids

DefaultFolder == "Unni_Menon"
\* With the default folder present no other folder can ever be selected, so
\* one directory layout with it stands for all of them.
DirChoices == {{}, {"Unni_Menon", "X"}, {"X", "Y", "Empty"}, {"Empty"}}
AllNames == <<"a.mp3", "b.mp3", "c.mp3", "d.mp3", "e.mp3">>

\* What the two log files hold when the session starts: a line written by an
\* earlier session.
PriorLog == <<"Old/o.mp3">>

\* The music files found under MUSIC_ROOT/<folder>, already in sorted order.
FolderFiles(f) ==
    CASE f = "Unni_Menon" -> SubSeq(AllNames, 1, MaxTracks)
      [] f = "Y" -> SubSeq(AllNames, 1, MaxTracks)
      [] f = "X" -> <<"y.mp3">>
      [] OTHER -> << >>

VARIABLES
    pc,                     \* position of the main thread
    inTry,                  \* the main thread is inside try: ... finally: cleanup()
    isatty,                 \* sys.stdin.isatty()
    dirs,                   \* non-hidden directories under MUSIC_ROOT
    pending_key,            \* key typed and not yet read from stdin, "" for none
    videos,                 \* video player: the list find_videos returned
    use_fzf,                \* video player: fzf was found at construction
    vpc,                    \* video player: position of its main thread
    entered,                \* video player: the line last typed at the menu
    number,                 \* video player: last argument of play_video_by_number
    choice,                 \* video player: what get_user_choice last returned
    message,                \* video player: the error message last printed
    success,                \* video player: what the last play call returned
    launched,               \* video player: files a player was started on
    custom_player,          \* video player: the --player command, "" for None
    play_call,              \* video player: what the last play_video call did
    termMode,               \* "cooked" (the mode saved at start) or "cbreak"
    old_termios_settings,   \* TRUE once the prior mode has been saved
    current_folder,
    songs,
    current_song_index,     \* 0-based, as in the code
    needs_full_redraw,
    mpv_process,            \* None or the pid held by the Popen handle
    child,                  \* pid returned by Popen and not yet stored
    prevProc,               \* handle value on entry to the running play_song
    procState,              \* pid -> "dead" | "starting" | "running"
    sock,                   \* NoSock or the pid that bound MPV_SOCKET
    song_path,              \* the track on the command line of the last Popen
    poll_age,               \* min(current_time - last_progress_update, 1 s)
    lastSend,               \* the last send_mpv_command call of the last step, or NoSend
    lastCleanup,            \* what the last run of cleanup did
    cleanupRuns,            \* number of cleanup() runs
    exitStatus,             \* -1 while running, else the process exit status
    exitCause,              \* what made the program stop
    likes,                  \* lines of LIKES_FILE
    dislikes,               \* lines of DISLIKES_FILE
    appends,                \* lines this session has appended to the two logs
    op,                     \* the handler the last step ran, "none" otherwise
    lastStop,               \* what lines 128-133 of the running play_song did
    percent,                \* get_mpv_property("percent-pos"), line 358
    current_pos,            \* get_mpv_property("time-pos"), line 359
    total_duration,         \* get_mpv_property("duration"), line 360
    status_line,            \* what update_progress_display wrote last
    screen                  \* the rows on the terminal and the cursor row

termVars == <<termMode, old_termios_settings>>
sessVars == <<current_folder, songs, current_song_index>>
procVars == <<mpv_process, child, prevProc, procState, sock, song_path>>
exitVars == <<lastCleanup, cleanupRuns, exitStatus, exitCause>>
playVars == <<custom_player, play_call>>
videoVars == <<videos, use_fzf, vpc, entered, number, choice, message, success,
               launched, playVars>>
envVars == <<isatty, dirs, pending_key, videoVars>>
logVars == <<likes, dislikes, appends>>
viewVars == <<percent, current_pos, total_duration, status_line>>
ctlVars == <<pc, inTry, envVars, termVars, sessVars, needs_full_redraw,
             procVars, poll_age, lastSend, exitVars, logVars, lastStop>>

vars == <<pc, inTry, isatty, dirs, pending_key, videoVars, termMode, old_termios_settings,
          current_folder, songs, current_song_index, needs_full_redraw,
          mpv_process, child, prevProc, procState, sock, song_path,
          poll_age, lastSend, lastCleanup, cleanupRuns, exitStatus, exitCause,
          likes, dislikes, appends, op, lastStop,
          percent, current_pos, total_duration, status_line, screen>>

\* ------------------------------------------------------------- helpers
NoLine == [text |-> << >>, kind |-> "none", num |-> 0]
NoChoice == [kind |-> "none", video |-> ""]
NoCall == [env |-> << >>, tried |-> << >>, started |-> ""]

Alive(p) == p # None /\ procState[p] # "dead"
LiveSet == {p \in Pids : procState[p] # "dead"}

NoSend == [cmd |-> "none", exists |-> FALSE, attempted |-> FALSE, result |-> "none"]
NoCleanup == [terminated |-> FALSE, killed |-> FALSE, unlinked |-> FALSE]

\* a circular advance that forgets the modulo
CircularAdvanceNoWrap(i, n) == i + 1

\* (index + 1) % len(songs)
CircularAdvance(i, n) == (i + 1) % n

\* randint(0, len(songs)): the upper end is inclusive
RandomPickInclusive(n) == 0..n

\* random.randint(0, len(songs) - 1)
RandomPick(n) == 0..(n - 1)

\* get_songs: the sorted, de-duplicated list of the folder
get_songs(f) == FolderFiles(f)

\* a log line that leaves out the folder
LogLineNameOnly(folder, name) == name

\* f"{current_folder}/{songs[current_song_index].name}", lines 373 and 377
LogLine(folder, name) == folder \o "/" \o name

\* MUSIC_ROOT / current_folder / name: the path get_songs stores (line 100) and
\* play_song passes to mpv (lines 138 and 159), relative to MUSIC_ROOT
PathOf(folder, name) == folder \o "/" \o name

\* a play_song that always takes the first track of the list
song_path_first(list, i) == list[1]

\* play_song, line 138: song_path = songs[current_song_index]
song_path_of(list, i) == list[i + 1]

\* song_names.index(name): 0-based position of the first occurrence
IndexOf(names, name) ==
    (CHOOSE i \in 1..Len(names) :
        /\ names[i] = name
        /\ \A j \in 1..(i - 1) : names[j] # name) - 1

\* A property mpv did not deliver: get_mpv_property returns None (line 193).
Absent == -1

\* Nothing has been written to the status line yet.
NotDrawn == [kind |-> "none"]

\* ------------------------------------------------------------- display
\* The terminal is taller than the interface, so nothing scrolls.  A row is
\* named by what was printed on it; rows are counted from 1 as in the escape
\* sequence ESC[<row>;1H.
Blank == [rows |-> << >>, cursor |-> 1]

\* draw_full_interface, lines 288-290: the row of one track
TrackRow(name, current) == IF current THEN " > " \o name ELSE "  " \o name

\* draw_full_interface, lines 279-298, after os.system('clear'): five header
\* rows, one row per track, the controls border, three legend rows, the
\* bottom border and the empty line of print(); the cursor ends below it
draw_full_interface(folder, list, idx) ==
    [rows |-> <<"top", folder \o "/" \o list[idx + 1], "separator", "info",
                "separator">>
              \o [i \in 1..Len(list) |-> TrackRow(list[i], i = idx + 1)]
              \o <<"controls", "legend_1", "legend_2", "legend_3", "bottom", "">>,
     cursor |-> 5 + Len(list) + 7]

\* a status row computed without the five header rows
status_row_no_header(n) == n + 5

\* update_progress_display, line 258: total_lines = 5 + len(songs) + 5
status_row(n) == 5 + n + 5

\* show_feedback, line 302: total_lines = 5 + len(songs) + 4
feedback_row(n) == 5 + n + 4

\* ESC[s ESC[<row>;1H ESC[K <text> ESC[u: the row is erased and rewritten,
\* the cursor is put back (lines 260 and 271-272, lines 303 and 306)
WriteRow(scr, row, text) ==
    IF row \in 1..Len(scr.rows)
    THEN [scr EXCEPT !.rows[row] = text]
    ELSE scr

\* update_progress_display, lines 256-273, on the screen
write_status(scr, n) == WriteRow(scr, status_row(n), "status")

\* show_feedback, lines 300-307: the message is written, then erased
show_feedback(scr, n) ==
    WriteRow(WriteRow(scr, feedback_row(n), "message"), feedback_row(n), "")

\* The controller after construction: module globals, lines 15-27.
InitControl ==
    /\ pc = "start"
    /\ inTry = FALSE
    /\ isatty \in BOOLEAN
    /\ dirs \in DirChoices
    /\ pending_key = ""
    /\ entered = NoLine /\ number = 0 /\ choice = NoChoice
    /\ message = "none" /\ success = "none" /\ launched = << >>
    /\ play_call = NoCall
    /\ termMode = "cooked"
    /\ old_termios_settings = FALSE
    /\ needs_full_redraw = TRUE
    /\ mpv_process = None
    /\ child = None
    /\ prevProc = None
    /\ procState = [p \in Pids |-> "dead"]
    /\ sock = NoSock
    /\ song_path = ""
    /\ poll_age = PollPeriod
    /\ lastSend = NoSend
    /\ lastCleanup = NoCleanup
    /\ cleanupRuns = 0
    /\ exitStatus = -1
    /\ exitCause = "none"
    /\ likes = PriorLog
    /\ dislikes = PriorLog
    /\ appends = 0
    /\ op = "none"
    /\ lastStop = "none"

\* The video player is a program of its own; while the music player is the
\* one under study it is not running.
VideoAtRest ==
    videos = << >> /\ use_fzf = FALSE /\ vpc = "off" /\ custom_player = ""

InitSession ==
    /\ InitControl /\ VideoAtRest
    /\ current_folder = ""
    /\ songs = << >>
    /\ current_song_index = 0

Init ==
    /\ InitSession
    /\ percent = Absent /\ current_pos = Absent /\ total_duration = Absent
    /\ status_line = NotDrawn
    /\ screen = Blank


\* ------------------------------------------------ process supervision
\* Lowest pid that no live process, the handle or the endpoint refers to.
HasFreshPid ==
    \E p \in Pids : procState[p] = "dead" /\ p # mpv_process /\ p # sock
FreshPid ==
    CHOOSE p \in Pids :
        /\ procState[p] = "dead" /\ p # mpv_process /\ p # sock
        /\ \A q \in 1..(p - 1) : ~(procState[q] = "dead" /\ q # mpv_process /\ q # sock)

\* A player that exits by itself (end of track, SIGTERM honoured) may remove
\* the socket it bound; a killed one cannot.
SockAfterExit(s, p, rm) == IF s = p /\ rm THEN NoSock ELSE s

\* a stop that gives up when the grace period runs out
play_song_stop_nokill(ps, h, graceful) ==
    IF h # None /\ ps[h] # "dead" /\ graceful
    THEN [ps EXCEPT ![h] = "dead"]
    ELSE ps

\* play_song, lines 128-133: terminate, wait(timeout=2), kill on timeout
play_song_stop(ps, h, graceful) ==
    IF h # None /\ ps[h] # "dead"
    THEN IF graceful
         THEN [ps EXCEPT ![h] = "dead"]      \* exited within the grace period
         ELSE [ps EXCEPT ![h] = "dead"]      \* TimeoutExpired: kill()
    ELSE ps

\* a play_song that leaves the redraw flag as it found it
play_song_flag_kept(flag) == flag

\* play_song, line 170: needs_full_redraw = True
play_song_flag(flag) == TRUE

\* a restart that leaves the old endpoint file in place
play_song_unlink_skip(s) == s

\* play_song, lines 135-136: if MPV_SOCKET.exists(): MPV_SOCKET.unlink()
play_song_unlink(s) == IF s # NoSock THEN NoSock ELSE s

\* a cleanup that gives up when the grace period runs out
cleanup_stop_nokill(ps, h, graceful) ==
    IF h # None /\ ps[h] # "dead" /\ graceful
    THEN [ps EXCEPT ![h] = "dead"]
    ELSE ps

\* cleanup, lines 33-38
cleanup_stop(ps, h, graceful) ==
    IF h # None /\ ps[h] # "dead"
    THEN IF graceful
         THEN [ps EXCEPT ![h] = "dead"]
         ELSE [ps EXCEPT ![h] = "dead"]
    ELSE ps

\* cleanup, lines 39-40
cleanup_unlink(s) == IF s # NoSock THEN NoSock ELSE s

\* cleanup, lines 46-47: restore the saved terminal settings
cleanup_restore(mode, saved, tty) == IF saved /\ tty THEN "cooked" ELSE mode

SetCause(c) == IF exitCause = "none" THEN c ELSE exitCause

\* cleanup(), lines 30-47 (everything but the final sys.exit(0))
cleanup(graceful, rm) ==
    LET wasAlive == Alive(mpv_process)
        s1 == IF wasAlive /\ graceful
              THEN SockAfterExit(sock, mpv_process, rm) ELSE sock
    IN  /\ procState' = cleanup_stop(procState, mpv_process, graceful)
        /\ sock' = cleanup_unlink(s1)
        /\ termMode' = cleanup_restore(termMode, old_termios_settings, isatty)
        /\ lastCleanup' = [terminated |-> wasAlive,
                           killed |-> wasAlive /\ ~graceful,
                           unlinked |-> s1 # NoSock]
        /\ cleanupRuns' = cleanupRuns + 1

\* Once the main thread is unwinding towards exit (SystemExit or an error in
\* flight, or the interpreter gone) no code reads the session variables
\* again: they are dead and read as at start.
SessionGone ==
    /\ current_folder' = ""
    /\ songs' = << >>
    /\ current_song_index' = 0
    /\ needs_full_redraw' = TRUE
    /\ poll_age' = PollPeriod
    /\ prevProc' = None
    /\ song_path' = ""
    /\ lastStop' = "none"
    /\ screen' = Blank

\* sys.exit(0) at the end of cleanup (line 48): SystemExit(0) unwinds the main
\* thread; inside the try block it first runs finally: cleanup() (line 406).
cleanup_exit ==
    IF inTry /\ pc # "finally"
    THEN pc' = "finally" /\ exitStatus' = exitStatus
    ELSE pc' = "exited" /\ exitStatus' = 0

\* sys.exit(status) or an uncaught exception raised by the main thread.
\* Inside the try block the finally clause runs cleanup(), whose own
\* sys.exit(0) replaces the exception in flight.
RaiseExit(status, cause) ==
    /\ exitCause' = SetCause(cause)
    /\ IF inTry
       THEN pc' = "finally" /\ exitStatus' = exitStatus
       ELSE pc' = "exited" /\ exitStatus' = status

\* ------------------------------------------------------ control channel
AllOutcomes == {"ok", "empty", "refused", "notfound", "brokenpipe",
                "timeout", "reset", "badjson"}

\* What connecting to MPV_SOCKET can lead to, given who owns the socket.
ChannelOutcomes ==
    IF sock = NoSock THEN {"notfound"}
    ELSE IF procState[sock] = "running" THEN AllOutcomes
    ELSE {"refused", "notfound"}

\* send_mpv_command, lines 176-186: the connection attempt
ConnectResult(o) ==
    CASE o = "ok" -> "value"                       \* json.loads(response_data)
      [] o = "empty" -> "none"                     \* recv returned b''
      [] o \in {"refused", "notfound", "brokenpipe", "timeout"} -> "none"
      [] OTHER -> "raise"    \* ConnectionResetError, JSONDecodeError: not caught

\* One outcome for each result the caller can tell apart.
PollOutcomes ==
    {o \in ChannelOutcomes :
        o = CHOOSE x \in ChannelOutcomes : ConnectResult(x) = ConnectResult(o)}

\* a send that connects without looking for the endpoint first
send_mpv_command_nocheck(cmd, exists, o) ==
    [cmd |-> cmd, exists |-> exists, attempted |-> TRUE, result |-> ConnectResult(o)]

\* send_mpv_command, lines 172-186
send_mpv_command(cmd, exists, o) ==
    IF ~exists
    THEN [cmd |-> cmd, exists |-> FALSE, attempted |-> FALSE, result |-> "none"]
    ELSE [cmd |-> cmd, exists |-> TRUE, attempted |-> TRUE, result |-> ConnectResult(o)]

\* ------------------------------------------------------------- startup
\* __main__, lines 409-412
ToolsPresent ==
    /\ pc = "start"
    /\ op' = "none" /\ UNCHANGED lastStop
    /\ UNCHANGED screen
    /\ UNCHANGED logVars
    /\ lastSend' = NoSend
    /\ pc' = "main"
    /\ UNCHANGED <<inTry, envVars, viewVars, termVars, sessVars, needs_full_redraw,
                   procVars, poll_age, exitVars>>

ToolMissing ==
    /\ pc = "start"
    /\ op' = "none"
    /\ UNCHANGED logVars
    /\ lastSend' = NoSend
    /\ RaiseExit(1, "tool_missing")
    /\ SessionGone
    /\ UNCHANGED <<inTry, envVars, viewVars, termVars, mpv_process, child, procState,
                   sock, lastCleanup, cleanupRuns>>

\* main, lines 328-330
MainNoTty ==
    /\ pc = "main" /\ ~isatty
    /\ op' = "none"
    /\ UNCHANGED logVars
    /\ lastSend' = NoSend
    /\ RaiseExit(1, "notty")
    /\ SessionGone
    /\ UNCHANGED <<inTry, envVars, viewVars, termVars, mpv_process, child, procState,
                   sock, lastCleanup, cleanupRuns>>

\* main, lines 332-336
MainInit ==
    /\ pc = "main" /\ isatty
    /\ op' = "none" /\ UNCHANGED lastStop
    /\ UNCHANGED screen
    /\ UNCHANGED logVars
    /\ lastSend' = NoSend
    /\ old_termios_settings' = TRUE
    /\ termMode' = "cbreak"
    /\ pc' = "select"
    /\ UNCHANGED <<inTry, envVars, viewVars, sessVars, needs_full_redraw, procVars,
                   poll_age, exitVars>>

\* select_folder, lines 80-84: the default folder wins without asking
FolderChoices == IF DefaultFolder \in dirs THEN {DefaultFolder} ELSE dirs
UsesFzf == dirs # {} /\ DefaultFolder \notin dirs

\* select_folder, lines 75-77
StartupNoFolders ==
    /\ pc = "select" /\ dirs = {}
    /\ op' = "none"
    /\ UNCHANGED logVars
    /\ lastSend' = NoSend
    /\ RaiseExit(1, "no_folders")
    /\ SessionGone
    /\ UNCHANGED <<inTry, envVars, viewVars, termVars, mpv_process, child, procState,
                   sock, lastCleanup, cleanupRuns>>

\* run_fzf, lines 64-67, called from select_folder at startup
StartupFzfMissing ==
    /\ pc = "select" /\ UsesFzf
    /\ op' = "none"
    /\ UNCHANGED logVars
    /\ lastSend' = NoSend
    /\ \E g \in BOOLEAN, rm \in BOOLEAN : cleanup(g, rm)
    /\ cleanup_exit
    /\ exitCause' = SetCause("tool_missing")
    /\ SessionGone
    /\ UNCHANGED <<inTry, envVars, viewVars, old_termios_settings, mpv_process, child>>

\* select_folder, lines 86-91: nothing selected and the user answers y
StartupQuit ==
    /\ pc = "select" /\ UsesFzf
    /\ op' = "none"
    /\ UNCHANGED logVars
    /\ lastSend' = NoSend
    /\ \E g \in BOOLEAN, rm \in BOOLEAN : cleanup(g, rm)
    /\ cleanup_exit
    /\ exitCause' = SetCause("quit")
    /\ SessionGone
    /\ UNCHANGED <<inTry, envVars, viewVars, old_termios_settings, mpv_process, child>>

\* select_folder then get_songs, lines 106-108: no songs in the folder
StartupEmpty ==
    /\ pc = "select"
    /\ op' = "none"
    /\ UNCHANGED logVars
    /\ lastSend' = NoSend
    /\ \E f \in FolderChoices : get_songs(f) = << >>
    /\ RaiseExit(1, "empty_tracks")
    /\ SessionGone
    /\ UNCHANGED <<inTry, envVars, viewVars, termVars, mpv_process, child, procState,
                   sock, lastCleanup, cleanupRuns>>

\* main, lines 338-342 up to the call of play_song
StartupOk ==
    /\ pc = "select"
    /\ op' = "startup" /\ UNCHANGED lastStop
    /\ UNCHANGED screen
    /\ UNCHANGED logVars
    /\ lastSend' = NoSend
    /\ \E f \in FolderChoices :
        /\ get_songs(f) # << >>
        /\ current_folder' = f
        /\ songs' = get_songs(f)
        /\ current_song_index' \in RandomPick(Len(get_songs(f)))
    /\ pc' = "ps_stop"
    /\ UNCHANGED <<inTry, envVars, viewVars, termVars, needs_full_redraw, procVars,
                   poll_age, exitVars>>

\* ------------------------------------------------------------ play_song
\* play_song, lines 128-136: stop the previous player, remove the endpoint
PlayStop ==
    /\ pc = "ps_stop"
    /\ op' = "none"
    /\ UNCHANGED screen
    /\ UNCHANGED <<logVars, song_path>>
    /\ lastSend' = NoSend
    /\ \E g \in BOOLEAN, rm \in BOOLEAN :
        LET wasAlive == Alive(mpv_process)
            s1 == IF wasAlive /\ g
                  THEN SockAfterExit(sock, mpv_process, rm) ELSE sock
        IN  /\ procState' = play_song_stop(procState, mpv_process, g)
            /\ sock' = play_song_unlink(s1)
            /\ lastStop' = IF ~wasAlive THEN "exited"
                           ELSE IF g THEN "graceful" ELSE "killed"
    /\ prevProc' = mpv_process
    /\ pc' = "ps_spawn"
    /\ UNCHANGED <<inTry, envVars, viewVars, termVars, sessVars, needs_full_redraw,
                   mpv_process, child, poll_age, exitVars>>

\* play_song, lines 162-167: Popen has created the child process; its
\* result is not yet assigned to mpv_process
PlaySpawn ==
    /\ pc = "ps_spawn"
    /\ op' = "none" /\ UNCHANGED lastStop
    /\ UNCHANGED screen
    /\ UNCHANGED logVars
    /\ lastSend' = NoSend
    /\ HasFreshPid
    /\ child' = FreshPid
    /\ song_path' = PathOf(current_folder, song_path_of(songs, current_song_index))
    /\ procState' = [procState EXCEPT ![FreshPid] = "starting"]
    /\ pc' = "ps_store"
    /\ UNCHANGED <<inTry, envVars, viewVars, termVars, sessVars, needs_full_redraw,
                   mpv_process, prevProc, sock, poll_age, exitVars>>

\* play_song, line 162: Popen raises FileNotFoundError (mpv not found)
PlaySpawnFail ==
    /\ pc = "ps_spawn"
    /\ op' = "none"
    /\ UNCHANGED logVars
    /\ lastSend' = NoSend
    /\ RaiseExit(1, "tool_missing")
    /\ SessionGone
    /\ UNCHANGED <<inTry, envVars, viewVars, termVars, mpv_process, child, procState,
                   sock, lastCleanup, cleanupRuns>>

\* play_song, line 162: the assignment mpv_process = <Popen object>
PlayStore ==
    /\ pc = "ps_store"
    /\ op' = "none" /\ UNCHANGED lastStop
    /\ UNCHANGED screen
    /\ UNCHANGED <<logVars, song_path>>
    /\ lastSend' = NoSend
    /\ mpv_process' = child
    /\ child' = None
    /\ pc' = "ps_settle"
    /\ UNCHANGED <<inTry, envVars, viewVars, termVars, sessVars, needs_full_redraw,
                   prevProc, procState, sock, poll_age, exitVars>>

\* play_song, lines 169-170, and the return into the loop (line 344-348 at
\* startup, line 367 or lines 401-404 from the loop)
PlaySettle ==
    /\ pc = "ps_settle"
    /\ op' = "none" /\ lastStop' = "none"
    /\ UNCHANGED screen
    /\ UNCHANGED <<logVars, song_path>>
    /\ lastSend' = NoSend
    /\ needs_full_redraw' = play_song_flag(needs_full_redraw)
    /\ poll_age' = PollPeriod
    /\ inTry' = TRUE
    /\ pc' = "loop"
    /\ prevProc' = None
    /\ UNCHANGED <<envVars, viewVars, termVars, sessVars, mpv_process, child, procState,
                   sock, exitVars>>

\* ------------------------------------------------- the external player
\* mpv binds --input-ipc-server (line 157), replacing whatever is there
PlayerBind(p) ==
    /\ procState[p] = "starting"
    /\ op' = "none" /\ UNCHANGED lastStop
    /\ UNCHANGED screen
    /\ UNCHANGED <<logVars, song_path>>
    /\ lastSend' = NoSend
    /\ procState' = [procState EXCEPT ![p] = "running"]
    /\ sock' = p
    /\ UNCHANGED <<pc, inTry, envVars, viewVars, termVars, sessVars, needs_full_redraw,
                   mpv_process, child, prevProc, poll_age, exitVars>>

\* the player exits by itself: end of track, error, killed by someone else
PlayerExit(p) ==
    /\ procState[p] # "dead"
    /\ op' = "none" /\ UNCHANGED lastStop
    /\ UNCHANGED screen
    /\ UNCHANGED <<logVars, song_path>>
    /\ lastSend' = NoSend
    /\ procState' = [procState EXCEPT ![p] = "dead"]
    /\ \E rm \in BOOLEAN : sock' = SockAfterExit(sock, p, rm)
    /\ UNCHANGED <<pc, inTry, envVars, viewVars, termVars, sessVars, needs_full_redraw,
                   mpv_process, child, prevProc, poll_age, exitVars>>

\* -------------------------------------------------------------- signals
\* signal_handler, lines 50-51, installed by lines 335-336
Signal ==
    /\ pc \notin {"start", "main", "exited"}
    /\ op' = "signal"
    /\ UNCHANGED logVars
    /\ lastSend' = NoSend
    /\ \E g \in BOOLEAN, rm \in BOOLEAN : cleanup(g, rm)
    /\ cleanup_exit
    /\ exitCause' = SetCause("signal")
    /\ SessionGone
    /\ UNCHANGED <<inTry, envVars, viewVars, old_termios_settings, mpv_process, child>>

\* main, lines 405-406: finally: cleanup()
Finally ==
    /\ pc = "finally"
    /\ op' = "finally"
    /\ UNCHANGED logVars
    /\ lastSend' = NoSend
    /\ \E g \in BOOLEAN, rm \in BOOLEAN : cleanup(g, rm)
    /\ cleanup_exit
    /\ SessionGone
    /\ UNCHANGED <<inTry, envVars, viewVars, old_termios_settings, mpv_process, child,
                   exitCause>>

\* ------------------------------------------------------------ main loop
Min(a, b) == IF a < b THEN a ELSE b

\* line 357: current_time - last_progress_update >= 1 (line 355 zeroes
\* last_progress_update after a full redraw)
PollDue == needs_full_redraw \/ poll_age >= PollPeriod

\* The handler goes on into play_song, which sleeps one second (line 169)
\* before the loop can poll again: no poll sees a smaller age than the period.
PlaySongElapsed == poll_age' = PollPeriod

\* The send that ends a status poll: the first that raises, else the third.
PollSends(o1, o2, o3) ==
    LET r1 == send_mpv_command("percent-pos", sock # NoSock, o1)
        r2 == send_mpv_command("time-pos", sock # NoSock, o2)
        r3 == send_mpv_command("duration", sock # NoSock, o3)
    IN  IF r1.result = "raise" THEN r1
        ELSE IF r2.result = "raise" THEN r2
        ELSE r3

\* lines 352-354: the screen after the redraw phase of the tick
Redrawn ==
    IF needs_full_redraw
    THEN draw_full_interface(current_folder, songs, current_song_index)
    ELSE screen

\* main, lines 350-362: redraw when flagged, poll the status when due
TickRender ==
    /\ pc = "loop"
    /\ op' = "none" /\ UNCHANGED lastStop
    /\ UNCHANGED logVars
    /\ IF PollDue
       THEN /\ \E o1 \in PollOutcomes, o2 \in PollOutcomes, o3 \in PollOutcomes :
                /\ PollSends(o1, o2, o3).result # "raise"
                /\ lastSend' = PollSends(o1, o2, o3)
            /\ poll_age' = 0
            /\ screen' = write_status(Redrawn, Len(songs))
       ELSE /\ lastSend' = NoSend /\ UNCHANGED poll_age
            /\ screen' = Redrawn
    /\ needs_full_redraw' = FALSE
    /\ pc' = "check"
    /\ UNCHANGED <<inTry, envVars, viewVars, termVars, sessVars, procVars, exitVars>>

\* draw_full_interface -> get_song_info, line 213: ffprobe is gone and
\* FileNotFoundError is not among the exceptions caught at line 227
TickRedrawFail ==
    /\ pc = "loop" /\ needs_full_redraw
    /\ op' = "none"
    /\ UNCHANGED logVars
    /\ lastSend' = NoSend
    /\ RaiseExit(1, "tool_missing")
    /\ SessionGone
    /\ UNCHANGED <<inTry, envVars, viewVars, termVars, mpv_process, child, procState,
                   sock, lastCleanup, cleanupRuns>>

\* main, lines 357-360: a status request raises out of send_mpv_command
TickPollRaise ==
    /\ pc = "loop" /\ PollDue
    /\ op' = "none"
    /\ UNCHANGED logVars
    /\ \E o1 \in PollOutcomes, o2 \in PollOutcomes, o3 \in PollOutcomes :
        /\ PollSends(o1, o2, o3).result = "raise"
        /\ lastSend' = PollSends(o1, o2, o3)
    /\ RaiseExit(1, "channel_error")
    /\ SessionGone
    /\ UNCHANGED <<inTry, envVars, viewVars, termVars, mpv_process, child, procState,
                   sock, lastCleanup, cleanupRuns>>

\* main, lines 364-367: the player has exited; advance and restart
DetectExit ==
    /\ pc = "check"
    /\ op' = "exit_advance" /\ UNCHANGED lastStop
    /\ screen' = Blank
    /\ UNCHANGED logVars
    /\ lastSend' = NoSend
    /\ mpv_process # None /\ ~Alive(mpv_process)
    /\ current_song_index' = CircularAdvance(current_song_index, Len(songs))
    /\ pc' = "ps_stop"
    /\ PlaySongElapsed
    /\ UNCHANGED <<inTry, envVars, viewVars, termVars, current_folder, songs,
                   needs_full_redraw, procVars, exitVars>>

\* a loop that reads the key whether or not the player has exited
ReadsKeyAlways == pc = "check"

\* line 364 is false: the key is read (line 369)
ReadsKey == pc = "check" /\ ~(mpv_process # None /\ ~Alive(mpv_process))

\* get_key, lines 310-314: with a key waiting in the terminal's input buffer
\* that key is the one read; otherwise whatever is typed by then
NothingPending == pending_key = ""

\* time.sleep(0.1), line 404
Sleep == poll_age' = Min(poll_age + 1, PollPeriod)

\* a picker that falls back to the first track when nothing is selected
choose_song_reset(names, selected, idx) ==
    IF selected # "" /\ (\E i \in 1..Len(names) : names[i] = selected)
    THEN [ok |-> TRUE, index |-> IndexOf(names, selected)]
    ELSE [ok |-> FALSE, index |-> 0]

\* choose_song, lines 110-121; selected is what run_fzf returned, "" for None
choose_song(names, selected, idx) ==
    IF selected # "" /\ (\E i \in 1..Len(names) : names[i] = selected)
    THEN [ok |-> TRUE, index |-> IndexOf(names, selected)]
    ELSE [ok |-> FALSE, index |-> idx]

\* line 401: the keys after which no full redraw is requested
NoRedrawKeys == {"pause", "seek_back", "seek_forward", "like", "dislike"}

\* a loop that requests no redraw after a key
redraw_after_key_never(k, flag) == flag

\* lines 401-402: if key not in (p, P, space, b, B, f, F, l, L, d, D):
\* needs_full_redraw = True
redraw_after_key(k, flag) == IF k \notin NoRedrawKeys THEN TRUE ELSE flag

\* get_key returns None, lines 369-370 and 404
KeyNone ==
    /\ ReadsKey /\ NothingPending
    /\ op' = "no_key" /\ UNCHANGED lastStop
    /\ UNCHANGED screen
    /\ UNCHANGED logVars
    /\ lastSend' = NoSend
    /\ Sleep
    /\ pc' = "loop"
    /\ UNCHANGED <<inTry, envVars, viewVars, termVars, sessVars, needs_full_redraw,
                   procVars, exitVars>>

\* keys l, L, lines 371-374; show_feedback blocks for one second
KeyLike ==
    /\ ReadsKey /\ NothingPending
    /\ appends < MaxLog
    /\ op' = "like" /\ UNCHANGED lastStop
    /\ screen' = show_feedback(screen, Len(songs))
    /\ likes' = Append(likes, LogLine(current_folder, songs[current_song_index + 1]))
    /\ appends' = appends + 1
    /\ UNCHANGED dislikes
    /\ lastSend' = NoSend
    /\ poll_age' = PollPeriod
    /\ pc' = "loop"
    /\ UNCHANGED <<inTry, envVars, viewVars, termVars, sessVars, needs_full_redraw,
                   procVars, exitVars>>

\* keys d, D, lines 375-378
KeyDislike ==
    /\ ReadsKey /\ NothingPending
    /\ appends < MaxLog
    /\ op' = "dislike" /\ UNCHANGED lastStop
    /\ screen' = show_feedback(screen, Len(songs))
    /\ dislikes' = Append(dislikes, LogLine(current_folder, songs[current_song_index + 1]))
    /\ appends' = appends + 1
    /\ UNCHANGED likes
    /\ lastSend' = NoSend
    /\ poll_age' = PollPeriod
    /\ pc' = "loop"
    /\ UNCHANGED <<inTry, envVars, viewVars, termVars, sessVars, needs_full_redraw,
                   procVars, exitVars>>

\* keys n, N, lines 379-381 up to the call of play_song
KeyNext ==
    /\ ReadsKey /\ NothingPending
    /\ op' = "next" /\ UNCHANGED lastStop
    /\ screen' = Blank
    /\ UNCHANGED logVars
    /\ lastSend' = NoSend
    /\ current_song_index' = CircularAdvance(current_song_index, Len(songs))
    /\ pc' = "ps_stop"
    /\ PlaySongElapsed
    /\ UNCHANGED <<inTry, envVars, viewVars, termVars, current_folder, songs,
                   needs_full_redraw, procVars, exitVars>>

\* keys s, S, lines 382-384 with choose_song returning True (lines 113-118)
KeyChooseSelected ==
    /\ ReadsKey /\ NothingPending
    /\ op' = "choose" /\ UNCHANGED lastStop
    /\ screen' = Blank
    /\ UNCHANGED logVars
    /\ lastSend' = NoSend
    /\ \E i \in 1..Len(songs) :
        /\ choose_song(songs, songs[i], current_song_index).ok
        /\ current_song_index' = choose_song(songs, songs[i], current_song_index).index
    /\ pc' = "ps_stop"
    /\ PlaySongElapsed
    /\ UNCHANGED <<inTry, envVars, viewVars, termVars, current_folder, songs,
                   needs_full_redraw, procVars, exitVars>>

\* keys s, S, lines 385-386 and 401-404: the picker was cancelled
KeyChooseCancelled ==
    /\ ReadsKey /\ NothingPending
    /\ op' = "choose_cancel" /\ UNCHANGED lastStop
    /\ screen' = Blank
    /\ UNCHANGED logVars
    /\ lastSend' = NoSend
    /\ ~choose_song(songs, "", current_song_index).ok
    /\ current_song_index' = choose_song(songs, "", current_song_index).index
    /\ needs_full_redraw' = TRUE
    /\ \E quick \in BOOLEAN :       \* the time the user spent in the picker
        IF quick THEN Sleep ELSE poll_age' = PollPeriod
    /\ pc' = "loop"
    /\ UNCHANGED <<inTry, envVars, viewVars, termVars, current_folder, songs, procVars,
                   exitVars>>

\* run_fzf, lines 64-67, called from choose_song or select_folder in the loop
KeyPickerMissing ==
    /\ ReadsKey /\ NothingPending
    /\ op' = "none"
    /\ UNCHANGED logVars
    /\ lastSend' = NoSend
    /\ \E g \in BOOLEAN, rm \in BOOLEAN : cleanup(g, rm)
    /\ cleanup_exit
    /\ exitCause' = SetCause("tool_missing")
    /\ SessionGone
    /\ UNCHANGED <<inTry, envVars, viewVars, old_termios_settings, mpv_process, child>>

\* a folder change that keeps the index it had
index_after_folder_change_kept(idx, n) == idx % n

\* line 390: current_song_index = 0
index_after_folder_change(idx, n) == 0

\* keys c, C, lines 387-391 up to the call of play_song
KeyChangeFolder ==
    /\ ReadsKey /\ NothingPending
    /\ op' = "change_folder" /\ UNCHANGED lastStop
    /\ screen' = Blank
    /\ UNCHANGED logVars
    /\ lastSend' = NoSend
    /\ \E f \in FolderChoices :
        /\ get_songs(f) # << >>
        /\ current_folder' = f
        /\ songs' = get_songs(f)
        /\ current_song_index' =
               index_after_folder_change(current_song_index, Len(get_songs(f)))
    /\ pc' = "ps_stop"
    /\ PlaySongElapsed
    /\ UNCHANGED <<inTry, envVars, viewVars, termVars, needs_full_redraw, procVars,
                   exitVars>>

\* keys c, C, lines 388-389: get_songs finds nothing and calls sys.exit(1)
KeyChangeFolderEmpty ==
    /\ ReadsKey /\ NothingPending
    /\ op' = "none"
    /\ UNCHANGED logVars
    /\ lastSend' = NoSend
    /\ \E f \in FolderChoices : get_songs(f) = << >>
    /\ RaiseExit(1, "empty_tracks")
    /\ SessionGone
    /\ UNCHANGED <<inTry, envVars, viewVars, termVars, mpv_process, child, procState,
                   sock, lastCleanup, cleanupRuns>>

\* keys c, C, line 388: select_folder, nothing selected, the user answers y
KeyChangeFolderQuit ==
    /\ ReadsKey /\ NothingPending /\ UsesFzf
    /\ op' = "none"
    /\ UNCHANGED logVars
    /\ lastSend' = NoSend
    /\ \E g \in BOOLEAN, rm \in BOOLEAN : cleanup(g, rm)
    /\ cleanup_exit
    /\ exitCause' = SetCause("quit")
    /\ SessionGone
    /\ UNCHANGED <<inTry, envVars, viewVars, old_termios_settings, mpv_process, child>>

\* keys q, Q, lines 392-393
KeyQuit ==
    /\ ReadsKey
    /\ pending_key' = ""
    /\ op' = "quit"
    /\ UNCHANGED logVars
    /\ lastSend' = NoSend
    /\ \E g \in BOOLEAN, rm \in BOOLEAN : cleanup(g, rm)
    /\ cleanup_exit
    /\ exitCause' = SetCause("quit")
    /\ SessionGone
    /\ UNCHANGED <<inTry, isatty, dirs, videoVars, viewVars, old_termios_settings,
                   mpv_process, child>>

\* a key map with the two seek directions exchanged
command_for_swapped(k) ==
    CASE k = "pause" -> "cycle pause"
      [] k = "seek_back" -> "seek 5 relative"
      [] k = "seek_forward" -> "seek -5 relative"

\* lines 394-399: the command sent for p, P, space / b, B / f, F
command_for(k) ==
    CASE k = "pause" -> "cycle pause"
      [] k = "seek_back" -> "seek -5 relative"
      [] k = "seek_forward" -> "seek 5 relative"

\* keys p, P, space, b, B, f, F, lines 394-399 and 404
KeyCommand(k) ==
    /\ ReadsKey /\ NothingPending
    /\ op' = k
    /\ UNCHANGED logVars
    /\ \E o \in ChannelOutcomes :
        /\ lastSend' = send_mpv_command(command_for(k), sock # NoSock, o)
        /\ IF send_mpv_command(command_for(k), sock # NoSock, o).result = "raise"
           THEN /\ RaiseExit(1, "channel_error")
                /\ SessionGone
           ELSE /\ Sleep
                /\ pc' = "loop"
                /\ UNCHANGED <<exitStatus, exitCause, sessVars,
                               needs_full_redraw, prevProc, lastStop,
                               song_path, screen>>
    /\ UNCHANGED <<inTry, envVars, viewVars, termVars, mpv_process, child, procState,
                   sock, lastCleanup, cleanupRuns>>

KeyPause == KeyCommand("pause")
KeySeekBack == KeyCommand("seek_back")
KeySeekForward == KeyCommand("seek_forward")

\* any other key, lines 401-404
KeyOther ==
    /\ ReadsKey /\ NothingPending
    /\ op' = "other" /\ UNCHANGED lastStop
    /\ UNCHANGED screen
    /\ UNCHANGED logVars
    /\ lastSend' = NoSend
    /\ needs_full_redraw' = redraw_after_key("other", needs_full_redraw)
    /\ Sleep
    /\ pc' = "loop"
    /\ UNCHANGED <<inTry, envVars, viewVars, termVars, sessVars, procVars, exitVars>>

Next ==
    \/ ToolsPresent \/ ToolMissing \/ MainNoTty \/ MainInit
    \/ StartupNoFolders \/ StartupFzfMissing \/ StartupQuit
    \/ StartupEmpty \/ StartupOk
    \/ PlayStop \/ PlaySpawn \/ PlaySpawnFail \/ PlayStore \/ PlaySettle
    \/ \E p \in Pids : PlayerBind(p)
    \/ \E p \in Pids : PlayerExit(p)
    \/ Signal \/ Finally
    \/ TickRender \/ TickRedrawFail \/ TickPollRaise
    \/ DetectExit
    \/ KeyNone \/ KeyLike \/ KeyDislike \/ KeyNext
    \/ KeyChooseSelected \/ KeyChooseCancelled \/ KeyPickerMissing
    \/ KeyChangeFolder \/ KeyChangeFolderEmpty \/ KeyChangeFolderQuit
    \/ KeyQuit \/ KeyPause \/ KeySeekBack \/ KeySeekForward \/ KeyOther

Spec == Init /\ [][Next]_vars

\* ------------------------------------------- a quit key typed ahead
\* The user types q while a track is playing; the key waits in the terminal's
\* input buffer until get_key reads it (lines 311-313).
PressQuit ==
    /\ pc \in {"loop", "check"} /\ inTry /\ Alive(mpv_process)
    /\ pending_key = ""
    /\ pending_key' = "q"
    /\ op' = "none"
    /\ UNCHANGED <<pc, inTry, isatty, dirs, videoVars, termVars, sessVars,
                   needs_full_redraw,
                   procVars, poll_age, lastSend, exitVars, logVars, lastStop,
                   viewVars, screen>>

\* The steps of the main thread (the handler of a signal is not one of
\* them, the player's own steps neither).
MainThread ==
    \/ ToolsPresent \/ ToolMissing \/ MainNoTty \/ MainInit
    \/ StartupNoFolders \/ StartupFzfMissing \/ StartupQuit
    \/ StartupEmpty \/ StartupOk
    \/ PlayStop \/ PlaySpawn \/ PlaySpawnFail \/ PlayStore \/ PlaySettle
    \/ Finally
    \/ TickRender \/ TickRedrawFail \/ TickPollRaise
    \/ DetectExit
    \/ KeyNone \/ KeyLike \/ KeyDislike \/ KeyNext
    \/ KeyChooseSelected \/ KeyChooseCancelled \/ KeyPickerMissing
    \/ KeyChangeFolder \/ KeyChangeFolderEmpty \/ KeyChangeFolderQuit
    \/ KeyQuit \/ KeyPause \/ KeySeekBack \/ KeySeekForward \/ KeyOther

NextTypeAhead == Next \/ PressQuit

\* The main thread keeps running as long as it has a step to take; nothing
\* is assumed about the player or about signals.
SpecTypeAhead == Init /\ [][NextTypeAhead]_vars /\ WF_vars(MainThread)

TypeOK ==
    /\ pc \in {"start", "main", "select", "ps_stop", "ps_spawn", "ps_store",
               "ps_settle", "loop", "check", "finally", "exited"}
    /\ mpv_process \in {None} \cup Pids
    /\ sock \in {NoSock} \cup Pids
    /\ poll_age \in 0..PollPeriod
    /\ cleanupRuns \in 0..2
    /\ exitStatus \in {-1, 0, 1}

\* The session variables of a program on its way out carry no information.
ExitedIsBlank ==
    pc \in {"finally", "exited"} =>
        /\ songs = << >> /\ current_folder = "" /\ current_song_index = 0
        /\ lastStop = "none" /\ prevProc = None /\ song_path = ""

\* ------------------------------------------------------- the status line
\* What mpv can report: percent-pos, and time-pos / duration in seconds.
PercentValues == {Absent, 0, 1, 45, 100}
TimeValues == {Absent, 0, 59, 90, 200, 6000}

\* width = 50, line 246
BarWidth == 50

\* percent or 0, float(seconds) with None replaced by 0 (lines 234-235, 245)
OrZero(v) == IF v = Absent THEN 0 ELSE v

\* str(n) of a non-negative integer
Digits == <<"0", "1", "2", "3", "4", "5", "6", "7", "8", "9">>

RECURSIVE DecimalStr(_)
DecimalStr(n) ==
    IF n < 10 THEN Digits[n + 1]
    ELSE DecimalStr(n \div 10) \o Digits[(n % 10) + 1]

\* the format field {n:02d} of line 238: zero-padded to at least two digits
Format02d(n) == IF n < 10 THEN "0" \o DecimalStr(n) ELSE DecimalStr(n)

\* format_time_str, lines 232-240: divmod(int(float(seconds)), 60),
\* f"{mins:02d}:{secs:02d}"
format_time_str(seconds) ==
    Format02d(OrZero(seconds) \div 60) \o ":" \o Format02d(OrZero(seconds) % 60)

\* draw_progress_bar, lines 243-253
draw_progress_bar(p) ==
    LET filled_len == (BarWidth * OrZero(p)) \div 100
    IN  [filled |-> filled_len, empty |-> BarWidth - filled_len,
         percent |-> OrZero(p)]

\* update_progress_display, lines 262-269: which line is written
update_progress_display(p, pos, dur) ==
    IF p # Absent /\ OrZero(p) > 0
    THEN [kind |-> "bar", bar |-> draw_progress_bar(p),
          current |-> format_time_str(pos), total |-> format_time_str(dur)]
    ELSE [kind |-> "loading"]

\* The track lists the display functions are applied to: every length up to
\* MaxTracks.
RenderLists == {SubSeq(AllNames, 1, k) : k \in 1..MaxTracks}

\* main, lines 352-354: draw_full_interface()
RenderFull ==
    /\ op' = "redraw"
    /\ screen' = draw_full_interface(current_folder, songs, current_song_index)
    /\ UNCHANGED <<ctlVars, viewVars>>

\* main, lines 357-361: the three properties are read and the status line is
\* rewritten from them
PollAndUpdate ==
    /\ screen # Blank
    /\ op' = "status"
    /\ percent' \in PercentValues
    /\ current_pos' \in TimeValues
    /\ total_duration' \in TimeValues
    /\ status_line' = update_progress_display(percent', current_pos', total_duration')
    /\ screen' = write_status(screen, Len(songs))
    /\ UNCHANGED ctlVars

\* show_feedback("Liked!", ...), lines 374 and 378
ShowFeedback ==
    /\ screen # Blank
    /\ op' = "flash"
    /\ screen' = show_feedback(screen, Len(songs))
    /\ UNCHANGED <<ctlVars, viewVars>>

\* A session with a track list loaded and nothing drawn yet.
InitRender ==
    /\ InitControl /\ VideoAtRest /\ isatty /\ dirs = {"X", "Y", "Empty"}
    /\ current_folder = "Y"
    /\ songs \in RenderLists
    /\ current_song_index \in 0..(Len(songs) - 1)
    /\ percent = Absent /\ current_pos = Absent /\ total_duration = Absent
    /\ status_line = NotDrawn
    /\ screen = Blank

NextRender == RenderFull \/ PollAndUpdate \/ ShowFeedback

SpecRender == InitRender /\ [][NextRender]_vars

\* ================================================== video_player.py
\* The interactive loop (run, get_user_choice) and the --play N path
\* (play_video_by_number) of TerminalVideoPlayer.
AllVideos == <<"v1.mp4", "v2.mkv", "v3.avi", "v4.mov", "v5.webm">>

\* What find_videos can return: every list of up to MaxVideos files.
VideoLists == {SubSeq(AllVideos, 1, k) : k \in 0..MaxVideos}

\* Lines typed at the menu prompt: text is the sequence of characters typed,
\* kind and num say what the user meant by it.
Typed(t, k, n) == [text |-> t, kind |-> k, num |-> n]

InputLines ==
    {Typed(<<"q">>, "command", 0), Typed(<<" ", "Q">>, "command", 0),
     Typed(<<"r">>, "command", 0), Typed(<<"l">>, "command", 0),
     Typed(<<"d">>, "command", 0), Typed(<<"f">>, "fzf", 0),
     Typed(<<"0">>, "number", 0), Typed(<<"1">>, "number", 1),
     Typed(<<"2">>, "number", 2), Typed(<<"3">>, "number", 3),
     Typed(<<"4">>, "number", 4), Typed(<<"5">>, "number", 5),
     Typed(<<"-", "1">>, "number", -1), Typed(<<"+", "2">>, "number", 2),
     Typed(<<" ", "3", " ">>, "number", 3), Typed(<<"1", "0">>, "number", 10),
     Typed(<< >>, "other", 0), Typed(<<"x">>, "other", 0),
     Typed(<<"1", ".", "5">>, "other", 0), Typed(<<"-">>, "other", 0),
     Typed(<<"2", "x">>, "other", 0)}

\* the numbers --play is given
NumberArgs == -1..(MaxVideos + 2)

\* str.strip(), line 253
RECURSIVE lstrip(_)
lstrip(t) == IF t # << >> /\ Head(t) = " " THEN lstrip(Tail(t)) ELSE t

RECURSIVE rstrip(_)
rstrip(t) ==
    IF t # << >> /\ t[Len(t)] = " " THEN rstrip(SubSeq(t, 1, Len(t) - 1)) ELSE t

strip(t) == rstrip(lstrip(t))

\* str.lower(), line 253, on the letters that occur in InputLines
lower(t) == [i \in 1..Len(t) |-> IF t[i] = "Q" THEN "q" ELSE t[i]]

DigitChars == {"0", "1", "2", "3", "4", "5", "6", "7", "8", "9"}

DigitValue(c) == CHOOSE d \in 0..9 : Digits[d + 1] = c

RECURSIVE DecimalValue(_)
DecimalValue(t) ==
    IF t = << >> THEN 0
    ELSE 10 * DecimalValue(SubSeq(t, 1, Len(t) - 1)) + DigitValue(t[Len(t)])

AllDigits(t) == t # << >> /\ \A i \in 1..Len(t) : t[i] \in DigitChars

\* int(choice), line 271: an optional sign and decimal digits, ValueError
\* for anything else
int(t) ==
    IF AllDigits(t) THEN [ok |-> TRUE, value |-> DecimalValue(t)]
    ELSE IF t # << >> /\ Head(t) = "-" /\ AllDigits(Tail(t))
         THEN [ok |-> TRUE, value |-> 0 - DecimalValue(Tail(t))]
    ELSE IF t # << >> /\ Head(t) = "+" /\ AllDigits(Tail(t))
         THEN [ok |-> TRUE, value |-> DecimalValue(Tail(t))]
    ELSE [ok |-> FALSE, value |-> 0]

\* a range test that takes 0 for the first video
InRangeFromZero(num, n) == 0 <= num /\ num <= n

\* 1 <= num <= len(videos), lines 272 and 456
InRange(num, n) == 1 <= num /\ num <= n

\* list[i] of Python, lines 273 and 457: 0-based, a negative index counts
\* from the end, IndexError outside the list
subscript(list, i) ==
    LET j == IF i < 0 THEN i + Len(list) ELSE i
    IN  IF j \in 0..(Len(list) - 1) THEN list[j + 1] ELSE "IndexError"

Returned(k, v) == [returns |-> TRUE, value |-> [kind |-> k, video |-> v],
                   message |-> "none"]
Reprompt(m) == [returns |-> FALSE, value |-> NoChoice, message |-> m]

\* get_user_choice, lines 249-278: one pass of its loop on the typed text;
\* selected is what fzf_select_video gives ("" for None)
get_user_choice(list, fzf, text, selected) ==
    LET c == lower(strip(text))
    IN  IF c = <<"q">> THEN Returned("quit", "")
        ELSE IF c = <<"r">> THEN Returned("refresh", "")
        ELSE IF c = <<"l">> THEN Returned("list", "")
        ELSE IF c = <<"d">> THEN Returned("change_dir", "")
        ELSE IF c = <<"f">> /\ fzf
             THEN IF selected # "" THEN Returned("play", selected)
                  ELSE Reprompt("no_selection")
        ELSE IF int(c).ok
             THEN IF InRange(int(c).value, Len(list))
                  THEN Returned("play", subscript(list, int(c).value - 1))
                  ELSE Reprompt("range")
        ELSE Reprompt("invalid")

\* play_video, lines 351-379: a player was started, none of the candidate
\* commands exists, or starting one failed otherwise
PlayOutcomes == {"launched", "no_player", "error"}

CanLaunch == Len(launched) < MaxLaunch

\* play_video(video): the value returned and the files played so far
play_video(video, outcome) ==
    /\ outcome = "launched" => CanLaunch
    /\ launched' = IF outcome = "launched" THEN Append(launched, video)
                   ELSE launched
    /\ success' = IF outcome = "launched" THEN "True" ELSE "False"

musicVars == <<pc, inTry, isatty, dirs, pending_key, termVars, sessVars,
               needs_full_redraw, procVars, poll_age, lastSend, exitVars,
               logVars, lastStop, viewVars, screen>>

\* run, lines 393-407: scan; with no video found the tips are shown and the
\* user either gives up or names another directory
Scan ==
    /\ vpc = "scan"
    /\ op' = "scan"
    /\ videos' \in VideoLists
    /\ IF videos' = << >>
       THEN vpc' \in {"scan", "done"}
       ELSE vpc' = "menu"
    /\ UNCHANGED <<use_fzf, entered, number, choice, message, success, launched>>
    /\ UNCHANGED <<musicVars, playVars>>

\* run, lines 409-433 with get_user_choice, lines 249-278: one line typed at
\* the menu prompt and what the loop does with the choice
UserChoice ==
    /\ vpc = "menu"
    /\ op' = "choice"
    /\ \E typed \in InputLines, selected \in {""} \cup {videos[i] : i \in 1..Len(videos)} :
        LET r == get_user_choice(videos, use_fzf, typed.text, selected)
        IN  /\ entered' = typed
            /\ choice' = r.value
            /\ message' = r.message
            /\ IF ~r.returns
               THEN vpc' = "menu" /\ UNCHANGED <<success, launched>>
               ELSE IF r.value.kind = "quit"
               THEN vpc' = "done" /\ UNCHANGED <<success, launched>>
               ELSE IF r.value.kind # "play"
               THEN vpc' = "scan" /\ UNCHANGED <<success, launched>>
               ELSE /\ \E o \in PlayOutcomes : play_video(r.value.video, o)
                    /\ vpc' \in IF success' = "True" THEN {"scan", "done"}
                                ELSE {"scan"}
    /\ UNCHANGED <<videos, use_fzf, number>>
    /\ UNCHANGED <<musicVars, playVars>>

\* get_user_choice, lines 280-282: Ctrl-C at the prompt
UserInterrupt ==
    /\ vpc = "menu"
    /\ op' = "interrupt"
    /\ choice' = [kind |-> "quit", video |-> ""]
    /\ vpc' = "done"
    /\ UNCHANGED <<videos, use_fzf, entered, number, message, success, launched>>
    /\ UNCHANGED <<musicVars, playVars>>

\* main, lines 601-607 with play_video_by_number, lines 454-460:
\* --play <number>
PlayByNumber ==
    /\ vpc = "cli"
    /\ op' = "play_by_number"
    /\ \E num \in NumberArgs :
        /\ number' = num
        /\ IF InRange(num, Len(videos))
           THEN /\ \E o \in PlayOutcomes : play_video(subscript(videos, num - 1), o)
                /\ message' = "none"
           ELSE /\ success' = "False"
                /\ message' = "range"
                /\ UNCHANGED launched
    /\ vpc' = "done"
    /\ UNCHANGED <<videos, use_fzf, entered, choice>>
    /\ UNCHANGED <<musicVars, playVars>>

\* The video player started interactively, or with --play on the list
\* find_videos returned; the music player is not running.
InitVideo ==
    /\ InitControl /\ isatty /\ dirs = {}
    /\ current_folder = "" /\ songs = << >> /\ current_song_index = 0
    /\ percent = Absent /\ current_pos = Absent /\ total_duration = Absent
    /\ status_line = NotDrawn
    /\ screen = Blank
    /\ use_fzf \in BOOLEAN /\ custom_player = ""
    /\ \/ vpc = "scan" /\ videos = << >>
       \/ vpc = "cli" /\ videos \in VideoLists

NextVideo == Scan \/ UserChoice \/ UserInterrupt \/ PlayByNumber

SpecVideo == InitVideo /\ [][NextVideo]_vars

\* ------------------------------------------------------------ play_video
\* The commands play_video tries and what starting each of them leads to.
DefaultPlayers ==
    <<"vlc", "/usr/bin/vlc", "/snap/bin/vlc",
      "/Applications/VLC.app/Contents/MacOS/VLC", "mpv", "mplayer">>

\* --player: not given, a command also in the default list, another one
CustomChoices == {"", "mpv", "myplayer"}

\* a player list that falls back to the defaults after the custom player
player_commands_fallback(custom) ==
    IF custom # "" THEN <<custom>> \o DefaultPlayers ELSE DefaultPlayers

\* lines 353-358: player_commands
player_commands(custom) ==
    IF custom # "" THEN <<custom>> ELSE DefaultPlayers

\* What subprocess.Popen([cmd, video_path]) does for each candidate, by
\* position: "ok" (started), "notfound" (FileNotFoundError), "error" (any
\* other exception, e.g. PermissionError).  The first k candidates are
\* missing, the next one starts or fails, every later one would start.
PlayerEnvs(n) ==
    {[i \in 1..n |-> IF i <= k THEN "notfound"
                     ELSE IF i = k + 1 THEN r ELSE "ok"] :
        k \in 0..n, r \in {"ok", "error"}}

\* lines 360-375: the loop over player_commands from position i; tried is
\* the commands Popen was called with, started the one that came up
RECURSIVE try_players(_, _, _)
try_players(cands, env, i) ==
    IF i > Len(cands)
    THEN [tried |-> << >>, started |-> "", outcome |-> "no_player"]
    ELSE IF env[i] = "ok"
    THEN [tried |-> <<cands[i]>>, started |-> cands[i], outcome |-> "launched"]
    ELSE IF env[i] = "notfound"
    THEN LET rest == try_players(cands, env, i + 1)
         IN  [rest EXCEPT !.tried = <<cands[i]>> \o rest.tried]
    ELSE [tried |-> <<cands[i]>>, started |-> "", outcome |-> "error"]

\* play_video(video_path), lines 331-379, called on a file of the list
PlayVideo ==
    /\ vpc = "play"
    /\ op' = "play_video"
    /\ \E i \in 1..Len(videos) :
       \E env \in PlayerEnvs(Len(player_commands(custom_player))) :
        LET r == try_players(player_commands(custom_player), env, 1)
        IN  /\ play_video(videos[i], r.outcome)
            /\ play_call' = [env |-> env, tried |-> r.tried,
                             started |-> r.started]
    /\ UNCHANGED <<videos, use_fzf, vpc, entered, number, choice, message,
                   custom_player>>
    /\ UNCHANGED musicVars

\* A video player constructed with or without --player, about to play
\* files of the list it found.
InitPlay ==
    /\ InitControl /\ isatty /\ dirs = {}
    /\ current_folder = "" /\ songs = << >> /\ current_song_index = 0
    /\ percent = Absent /\ current_pos = Absent /\ total_duration = Absent
    /\ status_line = NotDrawn
    /\ screen = Blank
    /\ use_fzf = FALSE /\ custom_player \in CustomChoices
    /\ vpc = "play" /\ videos \in VideoLists \ {<< >>}

NextPlay == PlayVideo

SpecPlay == InitPlay /\ [][NextPlay]_vars

\* ---------------------------------------------------------------- claims
\* The player the running play_song has just spawned, else the managed one.
CurrentPlayer == IF pc = "ps_store" THEN child ELSE mpv_process

\* C1: whenever a track list is loaded, 0 <= current_song_index < len(songs),
\* after any sequence of startup pick, next, player exit, choose, change
\* folder, like, dislike, pause and seek.
C1_IndexInRange ==
    Len(songs) > 0 =>
        (current_song_index >= 0 /\ current_song_index < Len(songs))

C1_Witness ==
    /\ pc = "check" /\ inTry
    /\ Len(songs) = MaxTracks
    /\ current_song_index = Len(songs) - 1

\* C2: the next key and a detected player exit both set the index to
\* (index + 1) mod len(songs) and leave the track list and the folder alone;
\* from the last index the advance wraps to 0.
C2_CircularAdvance ==
    [][op' \in {"next", "exit_advance"} =>
         /\ Len(songs) > 0
         /\ current_song_index' = (current_song_index + 1) % Len(songs)
         /\ songs' = songs
         /\ current_folder' = current_folder]_vars

C2_Witness ==
    op = "next" /\ Len(songs) = MaxTracks /\ current_song_index = 0

\* C3: at most one player process spawned by the controller is alive at any
\* time, also when the terminate in play_song timed out and kill was used.
C3_AtMostOneLive == Cardinality(LiveSet) <= 1

C3_Witness ==
    pc = "ps_store" /\ lastStop = "killed" /\ LiveSet = {child}

\* C4: when the program has exited, on whatever path, no spawned player is
\* alive and the endpoint file does not exist.
C4_ExitReleasesAll ==
    pc = "exited" => (LiveSet = {} /\ sock = NoSock)

\* C5: once main has set cbreak mode, the terminal is back in its saved mode
\* when the program has exited, on whatever path.
C5_TerminalRestored ==
    (pc = "exited" /\ old_termios_settings) => termMode = "cooked"

\* C6: exit status 0 on a normal quit; exit status 1 when the program stops
\* because a required tool is missing or the track list is empty, at startup
\* or inside the loop.
C6_ExitStatus ==
    pc = "exited" =>
        /\ (exitCause = "quit" => exitStatus = 0)
        /\ (exitCause \in {"tool_missing", "empty_tracks"} => exitStatus = 1)

\* C7: send_mpv_command called while the endpoint file does not exist
\* returns None, raises nothing and attempts no connection.
C7_NoEndpointNoConnect ==
    (lastSend.cmd # "none" /\ ~lastSend.exists) =>
        (lastSend.result = "none" /\ ~lastSend.attempted)

C7_Witness ==
    lastSend.cmd = "cycle pause" /\ ~lastSend.exists /\ pc = "loop"

\* C8: no channel failure during send_mpv_command is raised to the caller,
\* so none can end the main loop.
C8_ChannelNeverRaises ==
    lastSend.result # "raise" /\ exitCause # "channel_error"

\* C9: when cleanup has done its stop, the endpoint file does not exist and
\* the managed player is not alive, whether it went on terminate or on kill.
C9_CleanupStops ==
    [][cleanupRuns' > cleanupRuns =>
         /\ sock' = NoSock
         /\ ~(mpv_process' # None /\ procState'[mpv_process'] # "dead")]_vars

C9_Witness ==
    /\ cleanupRuns = 1 /\ lastCleanup.killed /\ lastCleanup.unlinked
    /\ sock = NoSock /\ mpv_process # None /\ ~Alive(mpv_process)

PlayerGone == mpv_process # None /\ ~Alive(mpv_process)

InPlaySong == pc \in {"ps_stop", "ps_spawn", "ps_store", "ps_settle"}

\* C11: when the player has exited by itself, the first step the loop takes
\* after its status poll is the exit branch and not a key handler; that step
\* sets the index to (index + 1) mod len(songs), 0 from the last track, and
\* enters play_song, which runs to its end without a key being handled and
\* returns into the loop with a player handle.
C11_ExitAdvanceRestarts ==
    /\ [][(pc = "check" /\ PlayerGone /\ pc' # pc) =>
            op' \in {"exit_advance", "signal"}]_vars
    /\ [][op' = "exit_advance" =>
            /\ pc = "check" /\ PlayerGone /\ pc' = "ps_stop"
            /\ current_song_index' = (current_song_index + 1) % Len(songs)
            /\ (current_song_index = Len(songs) - 1 => current_song_index' = 0)]_vars
    /\ [][(InPlaySong /\ pc' # pc) =>
            /\ op' \in {"none", "signal"}
            /\ (pc' = "loop" => (pc = "ps_settle" /\ mpv_process' # None))
            /\ (pc = "ps_spawn" /\ pc' = "ps_store" =>
                    song_path' = PathOf(current_folder, songs[current_song_index + 1]))]_vars

C11_Witness ==
    /\ op = "exit_advance" /\ pc = "ps_stop" /\ PlayerGone
    /\ Len(songs) = MaxTracks /\ current_song_index = 0
    /\ song_path = PathOf(current_folder, songs[MaxTracks])

\* C12: every handler that writes the index (next key, exit advance, chosen
\* track, folder change) enters play_song in the same step; play_song then
\* runs to its end with nothing else handled and the session data untouched;
\* so whenever the loop is between two handlers the track on the command
\* line of the managed player is songs[current_song_index] of the folder.
C12_IndexChangeRestarts ==
    /\ []((pc \in {"loop", "check"}) =>
            /\ mpv_process # None
            /\ song_path = PathOf(current_folder, songs[current_song_index + 1]))
    /\ [][(op' \in {"next", "exit_advance", "choose", "change_folder"}
              \/ (sessVars' # sessVars /\ pc' \notin {"finally", "exited"})) =>
            pc' = "ps_stop"]_vars
    /\ [][(InPlaySong /\ pc' # pc /\ pc' \notin {"finally", "exited"}) =>
            (op' = "none" /\ sessVars' = sessVars)]_vars

C12_Witness ==
    /\ pc = "loop" /\ needs_full_redraw /\ Alive(mpv_process)
    /\ current_folder = "Y" /\ current_song_index = 1
    /\ song_path = PathOf("Y", AllNames[2])
    /\ likes = Append(PriorLog, LogLine("Y", AllNames[1]))

\* C13 as stated: in every reachable state, if the endpoint file exists then
\* the managed player process is alive, also between an exit of the player
\* and its detection by the loop.
C13_EndpointImpliesAlive ==
    sock # NoSock => Alive(CurrentPlayer)

\* C13, amended: while the session runs, an endpoint file that exists was
\* bound by the managed player and by no earlier one, and a request on the
\* channel is answered only while the managed player is alive and owns the
\* endpoint.  (The file itself can outlive a player that died without
\* removing it, until the next play_song or cleanup unlinks it.)
C13_EndpointOfManaged ==
    /\ (pc \notin {"finally", "exited"} /\ sock # NoSock) => sock = CurrentPlayer
    /\ lastSend.result = "value" => (Alive(mpv_process) /\ sock = mpv_process)

C13_Witness ==
    /\ pc = "check" /\ sock # NoSock /\ sock = mpv_process /\ PlayerGone
    /\ lastSend.cmd = "duration" /\ lastSend.attempted /\ lastSend.result = "none"

\* C14: a like (dislike) key appends exactly the one line
\* "<current_folder>/<name of the current track>" to the likes (dislikes)
\* log, keeps every earlier line of both logs, and leaves the index, the
\* track list, the folder, the player handle and process and the full-redraw
\* flag as they were: no restart, no full redraw.
C14_LikeAppendsOneLine ==
    [][op' \in {"like", "dislike"} =>
         LET line == current_folder \o "/" \o songs[current_song_index + 1]
         IN  /\ op' = "like" =>
                    (likes' = likes \o <<line>> /\ dislikes' = dislikes)
             /\ op' = "dislike" =>
                    (dislikes' = dislikes \o <<line>> /\ likes' = likes)
             /\ sessVars' = sessVars
             /\ needs_full_redraw' = needs_full_redraw /\ ~needs_full_redraw'
             /\ mpv_process' = mpv_process /\ procState' = procState
             /\ song_path' = song_path
             /\ pc' = "loop"]_vars

C14_Witness ==
    /\ op = "like" /\ current_folder = "X" /\ songs = <<"y.mp3">>
    /\ likes = <<"Old/o.mp3", "X/y.mp3">> /\ dislikes = PriorLog
    /\ ~needs_full_redraw

C16_CancelledChoiceFrame ==
    [][op' = "choose_cancel" =>
         /\ sessVars' = sessVars
         /\ mpv_process' = mpv_process /\ procState' = procState
         /\ sock' = sock /\ song_path' = song_path
         /\ pc' = "loop"
         /\ needs_full_redraw']_vars

C16_Witness ==
    /\ op = "choose_cancel" /\ pc = "loop" /\ needs_full_redraw
    /\ current_song_index = MaxTracks - 1 /\ Alive(mpv_process)
    /\ song_path = PathOf(current_folder, songs[MaxTracks])

\* C17: the change-folder key takes the selected folder, loads the tracks
\* found in it, sets the index to 0 whatever it was, and enters play_song,
\* whose spawn with index 0 is given the first track of the new list; the
\* advance after a player exit keeps folder and list and increments the
\* index.
C17_FolderChangeResets ==
    /\ [][op' = "change_folder" =>
            /\ current_folder' \in dirs
            /\ songs' = FolderFiles(current_folder') /\ songs' # << >>
            /\ current_song_index' = 0
            /\ pc' = "ps_stop"]_vars
    /\ [][(pc = "ps_spawn" /\ pc' = "ps_store" /\ current_song_index = 0) =>
            song_path' = PathOf(current_folder, songs[1])]_vars
    /\ [][op' = "exit_advance" =>
            /\ current_folder' = current_folder /\ songs' = songs
            /\ current_song_index' = (current_song_index + 1) % Len(songs)]_vars

C17_Witness ==
    /\ op = "change_folder" /\ pc = "ps_stop"
    /\ current_folder = "X" /\ songs = FolderFiles("X") /\ current_song_index = 0
    /\ song_path = PathOf("Y", AllNames[MaxTracks])

\* C18: a key outside l, d, n, s, c, q, p, space, b, f (either case) is
\* ignored: the index, the track list, the folder and the full-redraw flag
\* are unchanged, no redraw follows, no channel command is sent and
\* play_song is not entered.
C18_UnknownKeyIgnored ==
    [][op' = "other" =>
         /\ sessVars' = sessVars
         /\ needs_full_redraw' = needs_full_redraw
         /\ lastSend' = NoSend
         /\ pc' = "loop"]_vars

\* C19: two consecutive status polls (the requests for percent-pos, time-pos
\* and duration) are at least one second apart, whatever keys are pressed
\* between them.
C19_PollsOneSecondApart ==
    [][(pc = "loop" /\ lastSend'.cmd \in {"percent-pos", "time-pos", "duration"}) =>
         poll_age >= PollPeriod]_vars

\* C20: the status line shows "Loading..." exactly when mpv delivered no
\* percent position; with a position delivered, 0 at the start of a track
\* included, it shows the progress bar and the elapsed / total time.
C20_LoadingIffUnavailable ==
    status_line # NotDrawn =>
        (status_line.kind = "loading" <=> percent = Absent)

\* The rows draw_full_interface printed something on: header, track list,
\* controls legend and borders (the empty last line is not one of them).
DrawnRows == 1..(5 + Len(songs) + 5)

\* C21: update_progress_display writes only to the empty line below the
\* bottom border and puts the cursor back: every row drawn by the full
\* redraw is the same after the update, for every track-list length.
C21_StatusKeepsDrawnRows ==
    [][op' = "status" =>
         /\ screen'.cursor = screen.cursor
         /\ \A r \in DrawnRows : screen'.rows[r] = screen.rows[r]]_vars

\* C22: a status-line update writes to none of the track-list rows
\* 6 .. 5+len(songs), for every track-list length and every status value,
\* also directly after a full redraw.
C22_StatusKeepsTrackRows ==
    [][op' = "status" =>
         \A r \in 6..(5 + Len(songs)) :
             /\ screen'.rows[r] = screen.rows[r]
             /\ screen'.rows[r] =
                   TrackRow(songs[r - 5], r - 5 = current_song_index + 1)]_vars

C22_Witness ==
    /\ op = "status" /\ Len(songs) = MaxTracks
    /\ current_song_index = MaxTracks - 1
    /\ status_line.kind = "bar" /\ percent = 45
    /\ screen.rows[5 + MaxTracks] = TrackRow(AllNames[MaxTracks], TRUE)
    /\ screen.rows[status_row(MaxTracks)] = "status"

\* C28: show_feedback is transient: when it has returned, every row drawn
\* by the last full redraw has the content it had before the flash, for
\* every track-list length.
C28_FlashKeepsDrawnRows ==
    [][op' = "flash" =>
         \A r \in DrawnRows : screen'.rows[r] = screen.rows[r]]_vars

\* The quit key or a termination signal has started the shutdown.
Terminating == exitCause \in {"quit", "signal"}

\* C23: a quit key or termination signal moves the session to Terminating,
\* which stops the player process, removes the endpoint, restores the
\* terminal and exits; once Terminating, no player process is spawned, no
\* channel command is sent and the loop is never re-entered.
C23_TerminatingIsFinal ==
    /\ [](Terminating =>
            /\ pc \in {"finally", "exited"}
            /\ lastSend = NoSend
            /\ LiveSet = {}
            /\ (pc = "exited" => (sock = NoSock /\ termMode = "cooked")))
    /\ [][Terminating => (Terminating' /\ LiveSet' \subseteq LiveSet)]_vars

\* C24: a stop of a live player (in play_song and in cleanup) asks it to
\* terminate first and kills it only when the grace period ran out; in both
\* cases the player is dead afterwards and the caller goes on normally. A
\* player that has already exited is neither terminated nor killed.
C24_StopGracefulThenKill ==
    /\ [][(pc = "ps_stop" /\ pc' # pc /\ cleanupRuns' = cleanupRuns) =>
            /\ pc' = "ps_spawn"
            /\ IF Alive(mpv_process)
               THEN /\ lastStop' \in {"graceful", "killed"}
                    /\ procState' = [procState EXCEPT ![mpv_process] = "dead"]
               ELSE /\ lastStop' = "exited"
                    /\ procState' = procState]_vars
    /\ [][cleanupRuns' > cleanupRuns =>
            /\ (lastCleanup'.killed => lastCleanup'.terminated)
            /\ IF Alive(mpv_process)
               THEN /\ lastCleanup'.terminated
                    /\ procState' = [procState EXCEPT ![mpv_process] = "dead"]
               ELSE /\ ~lastCleanup'.terminated /\ ~lastCleanup'.killed
                    /\ procState' = procState]_vars

C24_Witness ==
    /\ pc = "ps_spawn" /\ lastStop = "killed"
    /\ prevProc # None /\ procState[prevProc] = "dead" /\ LiveSet = {}

\* C25: for every percent 0..100 and all times in seconds the rendered
\* status line has a bar of 50 cells with floor(50 * percent / 100) filled
\* and shows each time as MM:SS, two digits each, with MM = seconds div 60
\* and SS = seconds mod 60; a missing time is shown as 00:00; percent 45,
\* position 90 and duration 200 give 22 filled cells and 01:30 / 03:20.
TimeShown(text, seconds) ==
    /\ Len(text) = 5
    /\ text = Format02d(OrZero(seconds) \div 60) \o ":"
                 \o Format02d(OrZero(seconds) % 60)
    /\ (seconds = Absent => text = "00:00")

C25_StatusLineFormat ==
    (op = "status" /\ percent \in 0..100) =>
        /\ status_line.kind = "bar"
        /\ status_line.bar.filled + status_line.bar.empty = 50
        /\ status_line.bar.filled = (50 * percent) \div 100
        /\ TimeShown(status_line.current, current_pos)
        /\ TimeShown(status_line.total, total_duration)
        /\ ((percent = 45 /\ current_pos = 90 /\ total_duration = 200) =>
               /\ status_line.bar.filled = 22
               /\ status_line.current = "01:30"
               /\ status_line.total = "03:20")

\* The track-list positions the display shows with the "now playing" mark.
MarkedCurrent ==
    {i \in 1..Len(songs) :
        /\ 5 + i <= Len(screen.rows)
        /\ screen.rows[5 + i] = TrackRow(songs[i], TRUE)}

\* C26: every return of play_song (startup, next, exit advance, chosen
\* track, changed folder) leaves needs_full_redraw set; a set flag is
\* consumed by one full redraw at the start of the next tick and is clear
\* afterwards; after the redraw phase of every tick the one track the display
\* marks as current is songs[current_song_index].
C26_RedrawShowsCurrent ==
    /\ [](pc = "check" =>
            /\ ~needs_full_redraw
            /\ MarkedCurrent = {current_song_index + 1}
            /\ screen.rows[2] = current_folder \o "/" \o songs[current_song_index + 1])
    /\ [][(pc = "ps_settle" /\ pc' = "loop") => needs_full_redraw']_vars
    /\ [][(pc = "loop" /\ pc' = "check" /\ needs_full_redraw) =>
            /\ ~needs_full_redraw'
            /\ \A r \in 1..(5 + Len(songs)) :
                  screen'.rows[r] =
                     draw_full_interface(current_folder, songs,
                                         current_song_index).rows[r]]_vars

C26_Witness ==
    /\ pc = "check" /\ ~needs_full_redraw
    /\ Len(songs) = MaxTracks /\ current_song_index = 1
    /\ mpv_process # None /\ mpv_process > 1
    /\ MarkedCurrent = {2}

\* C27: once a quit key waits in the input buffer while a track is playing,
\* the loop eventually reads it and the session reaches Terminating (or the
\* program has ended some other way), whatever the player does, a player
\* that exits right after every spawn included.
C27_BufferedQuitIsRead ==
    (pending_key = "q") ~> (Terminating \/ pc = "exited")

\* C29: the cleanup that the finally clause runs after the quit key's own
\* cleanup changes nothing: it terminates and kills no process, finds no
\* endpoint file to remove, and the program exits with status 0.
C29_SecondCleanupIdle ==
    [][(exitCause = "quit" /\ cleanupRuns = 1 /\ cleanupRuns' = 2) =>
         /\ lastCleanup' = NoCleanup
         /\ procState' = procState
         /\ sock = NoSock /\ sock' = NoSock
         /\ pc' = "exited" /\ exitStatus' = 0]_vars

C29_Witness ==
    /\ pc = "exited" /\ exitCause = "quit" /\ op = "finally"
    /\ cleanupRuns = 2 /\ lastCleanup = NoCleanup
    /\ mpv_process # None /\ LiveSet = {} /\ exitStatus = 0

\* C30: a number typed at the menu or given to --play starts a player only
\* when 1 <= number <= len(videos), and then on videos[number - 1] and on
\* nothing else; a number outside that range (0, negative, any number with
\* an empty list) and a line that is neither a number nor a command start
\* no player and print an error: the menu asks again, play_video_by_number
\* returns False.
C30_NumberSelectsThatVideo ==
    /\ [][(op' = "choice" /\ entered'.kind = "number") =>
            IF 1 <= entered'.num /\ entered'.num <= Len(videos)
            THEN /\ choice' = [kind |-> "play", video |-> videos[entered'.num]]
                 /\ launched' \in {launched, Append(launched, videos[entered'.num])}
            ELSE /\ launched' = launched /\ choice' = NoChoice
                 /\ message' = "range" /\ vpc' = "menu"]_vars
    /\ [][(op' = "choice" /\ entered'.kind = "other") =>
            /\ launched' = launched /\ choice' = NoChoice
            /\ message' = "invalid" /\ vpc' = "menu"]_vars
    /\ [][op' = "play_by_number" =>
            IF 1 <= number' /\ number' <= Len(videos)
            THEN /\ launched' \in {launched, Append(launched, videos[number'])}
                 /\ (success' = "True" <=> launched' # launched)
            ELSE /\ launched' = launched /\ success' = "False"
                 /\ message' = "range"]_vars

C30_Witness ==
    /\ op = "choice" /\ entered = Typed(<<" ", "3", " ">>, "number", 3)
    /\ Len(videos) = 3 /\ launched = <<videos[2], videos[3]>>

\* C31: play_video tries the candidate commands in order (the custom
\* player alone when one is configured), stops at the first one that is
\* found, starts at most one player per call, returns True exactly when a
\* player was started and False when none was found or another error came
\* up, and never raises.
C31_FirstPlayerFound ==
    [][op' = "play_video" =>
         LET candidates ==
                 IF custom_player # "" THEN <<custom_player>>
                 ELSE <<"vlc", "/usr/bin/vlc", "/snap/bin/vlc",
                        "/Applications/VLC.app/Contents/MacOS/VLC", "mpv",
                        "mplayer">>
             tried == play_call'.tried
             env == play_call'.env
             n == Len(tried)
         IN  /\ 1 <= n /\ n <= Len(candidates)
             /\ tried = SubSeq(candidates, 1, n)
             /\ \A i \in 1..(n - 1) : env[i] = "notfound"
             /\ n < Len(candidates) => env[n] # "notfound"
             /\ \A i \in 1..Len(candidates) :
                   (env[i] # "notfound" => n <= i)
             /\ success' \in {"True", "False"}
             /\ IF n > 0 /\ env[n] = "ok"
                THEN /\ play_call'.started = tried[n]
                     /\ success' = "True"
                     /\ Len(launched') = Len(launched) + 1
                ELSE /\ play_call'.started = ""
                     /\ success' = "False"
                     /\ launched' = launched]_vars

C31_Witness ==
    /\ op = "play_video" /\ custom_player = ""
    /\ play_call.tried = SubSeq(DefaultPlayers, 1, 5)
    /\ play_call.started = "mpv" /\ play_call.env[6] = "ok"
    /\ success = "True" /\ Len(launched) = MaxLaunch

====
